---- MODULE Spec2Model ----
(***************************************************************************)
(* Earley recognizer of src/EarleyParser.py as a state machine.            *)
(*                                                                         *)
(* A Python value of type str is modelled as <<"str", s>>, a member of the *)
(* enum NonTerminal as <<"NonTerminal", name>> and None as                 *)
(* <<"None", "None">>, so that the three are distinct values that can be   *)
(* compared with each other, as `==` does in Python.                       *)
(***************************************************************************)
EXTENDS Integers, Sequences, FiniteSets, TLC

VARIABLES
    grammar,    \* the Grammar the parser was constructed with (self.grammar)
    test_sents, \* the sentences the driver may hand to parse
    orders,     \* which orders of iteration over a set the model follows
    tokens,     \* argument of the running (or last) call of parse
    n,          \* local n of parse
    chart,      \* chart.columns of the running (or last) call: column -> set of State
    i,          \* loop variable of `for i in range(n + 1)`
    changed,    \* local changed of parse
    todo,       \* items of the snapshot list(chart[i]) not yet visited in this pass
    pc,         \* position of the control: "idle", "while", "for_st", "done",
                \* "error" (an IndexError left parse), "chart"
    result,     \* value returned by the last finished call, NoResult before
    calls,      \* number of calls of parse made in a row on the present tokens
    returned,   \* the values returned by the finished calls on the present
                \* tokens, made one after the other
    lastAdd     \* <<>> or <<r>>, r the record of the last direct call of Chart.add

vars == <<grammar, test_sents, orders, tokens, n, chart, i, changed, todo,
          pc, result, calls, returned, lastAdd>>

----------------------------------------------------------------------------
(* Bounds of the model *)

MaxLen == 3      \* longest token sequence over Alphabet handed to parse
MaxCalls == 2    \* calls of parse in a row on the same tokens
MaxChartLen == 1 \* largest length of a Chart driven directly
MaxFairLen == 1  \* longest token sequence of the runs checked for termination
MaxOrderLen == 2 \* longest token sequence parsed in every order of both loops

NoResult == -1

\* orders: `for st in list(chart[i])` visits the items in any order; the
\* completer's `for prev in list(chart[st.start])` is followed in one order,
\* its adds go to one column and none of its tests reads that column's adds
AnyOrder == "any order of list(chart[i])"

\* orders: every order of `list(chart[i])` and of `list(chart[st.start])`
EveryOrder == "every order of both lists"

----------------------------------------------------------------------------
(* Symbols: class NonTerminal and terminal strings *)

nt(name) == <<"NonTerminal", name>>
str(s) == <<"str", s>>
None == <<"None", "None">>

NonTerminal == {nt("S"), nt("NP"), nt("VP"), nt("PP"), nt("N"), nt("V"), nt("P")}

\* the value of the enum member
NonTerminalValue(sym) ==
    CASE sym = nt("S") -> 1
      [] sym = nt("NP") -> 2
      [] sym = nt("VP") -> 3
      [] sym = nt("PP") -> 4
      [] sym = nt("N") -> 5
      [] sym = nt("V") -> 6
      [] sym = nt("P") -> 7

\* isinstance(sym, NonTerminal)
IsNonTerminal(sym) == sym[1] = "NonTerminal"

\* the sample grammar
RULES ==
    (nt("S") :> << <<nt("NP"), nt("VP")>> >>) @@
    (nt("NP") :> << <<nt("N"), nt("PP")>>, <<nt("N")>> >>) @@
    (nt("PP") :> << <<nt("P"), nt("NP")>> >>) @@
    (nt("VP") :> << <<nt("VP"), nt("PP")>>, <<nt("V"), nt("VP")>>,
                    <<nt("V"), nt("NP")>>, <<nt("V")>> >>) @@
    (nt("N") :> << <<str("can")>>, <<str("fish")>>, <<str("they")>>,
                   <<str("rivers")>>, <<str("December")>> >>) @@
    (nt("P") :> << <<str("in")>> >>) @@
    (nt("V") :> << <<str("can")>>, <<str("they")>> >>)

----------------------------------------------------------------------------
(* Production, State, Grammar *)

Production(lhs, rhs) == [lhs |-> lhs, rhs |-> rhs]

State(production, dot, start) ==
    [production |-> production, dot |-> dot, start |-> start]

is_complete(st) == st.dot >= Len(st.production.rhs)

next_symbol(st) ==
    IF is_complete(st) THEN None ELSE st.production.rhs[st.dot + 1]

advance(st) == State(st.production, st.dot + 1, st.start)

Grammar(rules, start) == [rules |-> rules, start |-> start]

\* mutant of RulesGet: self.rules.get(nt, [[]])
RulesGetEmptyAlternative(g, sym) ==
    IF sym \in DOMAIN g.rules THEN g.rules[sym] ELSE << <<>> >>

\* self.rules.get(nt, [])
RulesGet(g, sym) == IF sym \in DOMAIN g.rules THEN g.rules[sym] ELSE <<>>

\* the right-hand sides of every entry of the rules, one after the other
RECURSIVE AllAlternatives(_, _)
AllAlternatives(g, nts) ==
    IF nts = {} THEN <<>>
    ELSE LET X == CHOOSE Y \in nts : TRUE
         IN g.rules[X] \o AllAlternatives(g, nts \ {X})

\* mutant of productions_for: the alternatives of every nonterminal are
\* taken for those of nt
productions_forAnyRule(g, sym) ==
    LET alts == AllAlternatives(g, DOMAIN g.rules)
    IN [k \in 1..Len(alts) |-> Production(sym, alts[k])]

\* the list of Production of a nonterminal, in the order of its alternatives
productions_for(g, sym) ==
    [k \in 1..Len(RulesGet(g, sym)) |-> Production(sym, RulesGet(g, sym)[k])]

----------------------------------------------------------------------------
(* Chart *)

\* Chart(length).columns: length + 1 empty sets, indexed 0..length
Chart(length) == [c \in 0..length |-> {}]

\* len(self.columns)
NumColumns(columns) == Cardinality(DOMAIN columns)

\* a list of the given length has the index idx (no IndexError is raised)
InRange(idx, length) == -length <= idx /\ idx < length

\* the place of index idx counted from 0: a negative idx counts from the end
ListIndex(idx, length) == IF idx < 0 THEN idx + length ELSE idx

\* chart[idx], for an index in range
Col(columns, idx) == columns[ListIndex(idx, NumColumns(columns))]

\* mutant of add: the column is replaced by the new state
addReplace(columns, idx, state) ==
    IF state \notin columns[idx]
    THEN [columns |-> [columns EXCEPT ![idx] = {state}], ret |-> TRUE]
    ELSE [columns |-> columns, ret |-> FALSE]

\* mutant of add: True is returned also when the state was present
addReturnsTrue(columns, idx, state) ==
    [columns |-> [columns EXCEPT ![idx] = @ \cup {state}], ret |-> TRUE]

\* Chart.add: the columns after the call and the value returned
add(columns, idx, state) ==
    IF state \notin columns[idx]
    THEN [columns |-> [columns EXCEPT ![idx] = @ \cup {state}], ret |-> TRUE]
    ELSE [columns |-> columns, ret |-> FALSE]

\* mutant of SetChanged: the flag is not set, the loop ends after one pass
SetChangedNever(ch, ret) == ch

\* mutant of SetChanged: `changed = chart.add(...)`
SetChangedLast(ch, ret) == ret

\* mutant of SetChanged: `changed = True` whatever add returned
SetChangedAlways(ch, ret) == TRUE

\* `if chart.add(...): changed = True`
SetChanged(ch, ret) == ch \/ ret

\* the calls `if chart.add(idx, s): changed = True` for the states s of a
\* sequence, in its order; acc is [columns, changed]
RECURSIVE AddEach(_, _, _, _)
AddEach(acc, idx, states, k) ==
    IF k > Len(states) THEN acc
    ELSE LET r == add(acc.columns, idx, states[k])
         IN AddEach([columns |-> r.columns,
                     changed |-> SetChanged(acc.changed, r.ret)],
                    idx, states, k + 1)

----------------------------------------------------------------------------
(* Iteration order of a set of State: list(s) *)

\* a set as a list, for the loops whose result does not depend on the order:
\* every add of the loop goes to one column and none of them reads the chart
RECURSIVE ListOrder(_)
ListOrder(s) ==
    IF s = {} THEN <<>>
    ELSE LET st == CHOOSE x \in s : TRUE
         IN <<st>> \o ListOrder(s \ {st})

\* the orders in which the states a loop over a set snapshot adds are
\* followed: every order of them under EveryOrder, else one order
ListOrders(ord, states) ==
    IF ord = EveryOrder
    THEN {[k \in 1..Len(states) |-> states[perm[k]]] :
             perm \in Permutations(1..Len(states))}
    ELSE {states}

----------------------------------------------------------------------------
(* Grammars and sentences handed to the parser *)

\* Grammar(RULES, NonTerminal.S), the grammar of the driver
SampleGrammar == Grammar(RULES, nt("S"))

\* left recursion: VP -> VP PP
GLeftRec ==
    Grammar((nt("S") :> << <<nt("VP")>> >>) @@
            (nt("VP") :> << <<nt("VP"), nt("PP")>>, <<str("a")>> >>) @@
            (nt("PP") :> << <<str("b")>> >>),
            nt("S"))

\* empty right-hand sides, nullable start symbol
GNullable ==
    Grammar((nt("S") :> << <<nt("NP"), nt("VP")>> >>) @@
            (nt("NP") :> << <<>>, <<str("a")>> >>) @@
            (nt("VP") :> << <<>>, <<str("b")>> >>),
            nt("S"))

\* two alternatives of the start symbol that derive the same sentence
GAmbiguous ==
    Grammar((nt("S") :> << <<nt("NP")>>, <<nt("VP")>> >>) @@
            (nt("NP") :> << <<str("a")>> >>) @@
            (nt("VP") :> << <<str("a")>>, <<str("a"), str("b")>> >>),
            nt("S"))

\* left-recursive, nullable and infinitely ambiguous
GCyclic ==
    Grammar((nt("S") :> << <<nt("S"), nt("S")>>, <<str("a")>>, <<>> >>),
            nt("S"))

\* right recursion, an alternative declared twice
GRightRec ==
    Grammar((nt("S") :> << <<str("a"), nt("S")>>, <<str("a")>>, <<str("a")>> >>),
            nt("S"))

\* PP is used in a right-hand side and has no entry in the rules
GUndeclared ==
    Grammar((nt("S") :> << <<nt("NP"), nt("PP")>>, <<str("b")>> >>) @@
            (nt("NP") :> << <<str("a")>> >>),
            nt("S"))

SmallGrammars ==
    {GLeftRec, GNullable, GAmbiguous, GCyclic, GRightRec, GUndeclared}

Alphabet == {str("a"), str("b")}

BoundedSeq(S, m) == UNION {[1..k -> S] : k \in 0..m}

\* test_sents of the driver, and the sentences of the spec's acceptance tests
SentLong ==
    <<str("they"), str("can"), str("fish"), str("in"), str("rivers"),
      str("in"), str("December")>>
SentShort == <<str("they"), str("can"), str("fish")>>
SentFishTheyCan == <<str("fish"), str("they"), str("can")>>
SentEmpty == <<>>
SentUnknown == <<str("zzz")>>

\* test_sents of the driver, line 129
DriverSents == {SentLong, SentShort}

\* the sentences a caller hands to a parser of the sample grammar
SampleSents == DriverSents \cup {SentFishTheyCan, SentEmpty, SentUnknown}

----------------------------------------------------------------------------
(* parse *)

\* `for prod in productions_for(start): chart.add(0, State(prod, 0, 0))` on
\* a fresh Chart(len)
SeedChart(g, len) ==
    LET prods == productions_for(g, g.start)
        seeds == [k \in 1..Len(prods) |-> State(prods[k], 0, 0)]
    IN AddEach([columns |-> Chart(len), changed |-> FALSE], 0, seeds, 1).columns

\* mutant of CompleterStates: list(chart[0]) for list(chart[st.start])
CompleterStatesColumn0(g, columns, st) ==
    LET prevs == ListOrder(Col(columns, 0))
        sel == SelectSeq(prevs,
                         LAMBDA prev : next_symbol(prev) = st.production.lhs)
    IN [k \in 1..Len(sel) |-> advance(sel[k])]

\* mutant of CompleterStates: an item that began in the current column
\* completes nothing
CompleterStatesEarlier(g, columns, st) ==
    LET prevs == IF st.start = i THEN <<>> ELSE ListOrder(Col(columns, st.start))
        sel == SelectSeq(prevs,
                         LAMBDA prev : next_symbol(prev) = st.production.lhs)
    IN [k \in 1..Len(sel) |-> advance(sel[k])]

\* mutant of CompleterStates: every prev is advanced, whatever its next symbol
CompleterStatesUnfiltered(g, columns, st) ==
    LET prevs == ListOrder(Col(columns, st.start))
    IN [k \in 1..Len(prevs) |-> advance(prevs[k])]

\* the states the completer adds for the complete item st: prev.advance() for
\* the prev of list(columns[st.start]) whose next symbol is st's lhs
CompleterStates(g, columns, st) ==
    LET prevs == ListOrder(Col(columns, st.start))
        sel == SelectSeq(prevs,
                         LAMBDA prev : next_symbol(prev) = st.production.lhs)
    IN [k \in 1..Len(sel) |-> advance(sel[k])]

\* mutant of PredictorStates: State(prod, 0, 0) for State(prod, 0, i)
PredictorStatesOrigin0(g, sym, col) ==
    LET prods == productions_for(g, sym)
    IN [k \in 1..Len(prods) |-> State(prods[k], 0, 0)]

\* mutant of PredictorStates: State(prod, 0, i + 1) for State(prod, 0, i)
PredictorStatesNextColumn(g, sym, col) ==
    LET prods == productions_for(g, sym)
    IN [k \in 1..Len(prods) |-> State(prods[k], 0, col + 1)]

\* the states the predictor adds in column col for the nonterminal sym
PredictorStates(g, sym, col) ==
    LET prods == productions_for(g, sym)
    IN [k \in 1..Len(prods) |-> State(prods[k], 0, col)]

\* mutant of ScannerTest: `tokens[i - 1] == sym` for `tokens[i] == sym`
ScannerTestPreviousToken(toks, len, col, sym) ==
    IF ~(col < len) THEN "False"
    ELSE IF ~InRange(col - 1, Len(toks)) THEN "IndexError"
    ELSE IF toks[ListIndex(col - 1, Len(toks)) + 1] = sym THEN "True"
    ELSE "False"

\* mutant of ScannerTest: `tokens[i] == sym` without `i < n`
ScannerTestUnguarded(toks, len, col, sym) ==
    IF ~InRange(col, Len(toks)) THEN "IndexError"
    ELSE IF toks[ListIndex(col, Len(toks)) + 1] = sym THEN "True" ELSE "False"

\* the evaluation of `i < n and tokens[i] == sym`: tokens[i] is read only
\* when i < n, and raises IndexError when tokens has no index i
ScannerTest(toks, len, col, sym) ==
    IF ~(col < len) THEN "False"
    ELSE IF ~InRange(col, Len(toks)) THEN "IndexError"
    ELSE IF toks[ListIndex(col, Len(toks)) + 1] = sym THEN "True" ELSE "False"

\* mutant of ScannerMatches: the token is not compared
ScannerMatchesAny(toks, len, col, sym) == col < len

\* `i < n and tokens[i] == sym` holds
ScannerMatches(toks, len, col, sym) == ScannerTest(toks, len, col, sym) = "True"

\* mutant of ScannerColumn: chart.add(i + 2, ...) for chart.add(i + 1, ...)
ScannerColumnSkip(col) == col + 2

\* mutant of ScannerColumn: the scanner adds to column i
ScannerColumnSame(col) == col

\* the column the scanner adds to
ScannerColumn(col) == col + 1

\* mutant of IsAccepting: the origin is not tested
IsAcceptingAnyOrigin(g, st) ==
    st.production.lhs = g.start /\ is_complete(st)

\* mutant of IsAccepting: the left-hand side is not compared
IsAcceptingAnyLhs(g, st) ==
    st.start = 0 /\ is_complete(st)

\* st.production.lhs == start and st.start == 0 and st.is_complete()
IsAccepting(g, st) ==
    st.production.lhs = g.start /\ st.start = 0 /\ is_complete(st)

\* sum(IsAccepting(st) for st in s)
RECURSIVE SumAccepting(_, _)
SumAccepting(g, s) ==
    IF s = {} THEN 0
    ELSE LET st == CHOOSE x \in s : TRUE
         IN (IF IsAccepting(g, st) THEN 1 ELSE 0) + SumAccepting(g, s \ {st})

\* position of the control after the item st of the snapshot was visited
AfterVisit(rest) == IF rest = {} THEN "while" ELSE "for_st"

config == <<grammar, test_sents, orders>>

\* one call of parse up to the first test of `while changed`; the driver
\* hands the parser one sentence of test_sents after the other, the same
\* sentence up to MaxCalls times in a row
Call(sent) ==
    /\ pc \in {"idle", "done"}
    /\ (calls > 0 /\ sent = tokens) => calls < MaxCalls
    /\ sent \in test_sents
    /\ tokens' = sent
    /\ n' = Len(sent)
    /\ chart' = SeedChart(grammar, Len(sent))
    /\ i' = 0
    /\ changed' = TRUE
    /\ todo' = {}
    /\ pc' = "while"
    /\ result' = NoResult
    /\ calls' = IF calls > 0 /\ sent = tokens THEN calls + 1 ELSE 1
    /\ returned' = IF calls > 0 /\ sent = tokens THEN returned ELSE {}
    /\ UNCHANGED <<config, lastAdd>>

BeginPass ==
    /\ pc = "while"
    /\ changed
    /\ changed' = FALSE
    /\ todo' = chart[i]
    /\ pc' = AfterVisit(chart[i])
    /\ UNCHANGED <<config, tokens, n, chart, i, result, calls, returned, lastAdd>>

\* the body of `for st in list(chart[i])` for the item st, lines 104-120:
\* the outcomes [columns, changed, raised] it can have from the columns and
\* the flag of acc; raised is true when an IndexError leaves the body
VisitOutcomes(g, ord, toks, len, col, acc, st) ==
    LET sym == next_symbol(st)
        width == NumColumns(acc.columns)
        before == [columns |-> acc.columns, changed |-> acc.changed]
        Kept(r) == [columns |-> r.columns, changed |-> r.changed,
                    raised |-> FALSE]
        Raised == [columns |-> acc.columns, changed |-> acc.changed,
                   raised |-> TRUE]
    IN IF sym = None
       THEN IF ~InRange(st.start, width) THEN {Raised}
            ELSE IF CompleterStates(g, acc.columns, st) = <<>>
            THEN {Kept(before)}
            ELSE IF ~InRange(col, width) THEN {Raised}
            ELSE {Kept(AddEach(before, ListIndex(col, width), states, 1)) :
                     states \in ListOrders(ord,
                                           CompleterStates(g, acc.columns, st))}
       ELSE IF IsNonTerminal(sym)
       THEN IF PredictorStates(g, sym, col) = <<>> THEN {Kept(before)}
            ELSE IF ~InRange(col, width) THEN {Raised}
            ELSE {Kept(AddEach(before, ListIndex(col, width),
                               PredictorStates(g, sym, col), 1))}
       ELSE IF ScannerTest(toks, len, col, sym) = "IndexError" THEN {Raised}
       ELSE IF ~ScannerMatches(toks, len, col, sym) THEN {Kept(before)}
       ELSE IF ~InRange(ScannerColumn(col), width) THEN {Raised}
       ELSE LET r == add(acc.columns, ListIndex(ScannerColumn(col), width),
                         advance(st))
            IN {[columns |-> r.columns,
                 changed |-> SetChanged(acc.changed, r.ret),
                 raised |-> FALSE]}

\* an IndexError leaves parse: nothing of the step's effects is kept
Raise ==
    /\ pc' = "error"
    /\ UNCHANGED <<chart, changed, todo>>

\* one iteration of `for st in list(chart[i])`, with one of its outcomes
Visit(st) ==
    /\ pc = "for_st"
    /\ \E r \in VisitOutcomes(grammar, orders, tokens, n, i,
                              [columns |-> chart, changed |-> changed], st) :
          IF r.raised
          THEN Raise
          ELSE /\ chart' = r.columns
               /\ changed' = r.changed
               /\ todo' = todo \ {st}
               /\ pc' = AfterVisit(todo \ {st})
    /\ UNCHANGED <<config, tokens, n, i, result, calls, returned, lastAdd>>

Completer(st) ==
    /\ next_symbol(st) = None
    /\ Visit(st)

Predictor(st) ==
    /\ next_symbol(st) # None
    /\ IsNonTerminal(next_symbol(st))
    /\ Visit(st)

Scanner(st) ==
    /\ next_symbol(st) # None
    /\ ~IsNonTerminal(next_symbol(st))
    /\ Visit(st)

\* every list of the items of a set
RECURSIVE Lists(_)
Lists(s) ==
    IF s = {} THEN {<<>>}
    ELSE UNION {{<<st>> \o rest : rest \in Lists(s \ {st})} : st \in s}

\* the orders of list(chart[col]) that a pass taken at once is followed in.
\* A visit reads the chart only in the completer, in column st.start: when no
\* item of the snapshot is complete with origin col, no visit of the pass
\* reads a column that the pass writes, the states every visit adds and the
\* disjunction of `state not in column` are those of any order, and one
\* order is followed; else every order is
PassOrders(columns, col) ==
    IF \E st \in Col(columns, col) : next_symbol(st) = None /\ st.start = col
    THEN Lists(Col(columns, col))
    ELSE {ListOrder(Col(columns, col))}

\* the visits of the items of a list, one after the other, up to an IndexError
RECURSIVE VisitEach(_, _, _, _, _, _, _)
VisitEach(g, toks, len, col, acc, order, k) ==
    IF k > Len(order) \/ acc.raised THEN acc
    ELSE VisitEach(g, toks, len, col,
                   CHOOSE r \in VisitOutcomes(g, AnyOrder, toks, len, col, acc,
                                              order[k]) : TRUE,
                   order, k + 1)

\* one pass of `while changed`, lines 101-120, taken at once
Pass ==
    /\ pc = "while"
    /\ changed
    /\ \E order \in PassOrders(chart, i) :
          LET r == VisitEach(grammar, tokens, n, i,
                             [columns |-> chart, changed |-> FALSE,
                              raised |-> FALSE], order, 1)
          IN /\ chart' = r.columns
             /\ changed' = r.changed
             /\ pc' = IF r.raised THEN "error" ELSE "while"
    /\ todo' = {}
    /\ UNCHANGED <<config, tokens, n, i, result, calls, returned, lastAdd>>

NextColumn ==
    /\ pc = "while"
    /\ ~changed
    /\ i < n
    /\ i' = i + 1
    /\ changed' = TRUE
    /\ UNCHANGED <<config, tokens, n, chart, todo, pc, result, calls, returned,
                   lastAdd>>

Return ==
    /\ pc = "while"
    /\ ~changed
    /\ ~(i < n)
    /\ result' = SumAccepting(grammar, chart[n])
    /\ returned' = returned \cup {SumAccepting(grammar, chart[n])}
    /\ pc' = "done"
    /\ UNCHANGED <<config, tokens, n, chart, i, changed, todo, calls, lastAdd>>

\* a direct call of Chart.add on a chart that no parse is running on
ChartAdd(idx, state) ==
    /\ pc = "chart"
    /\ idx \in DOMAIN chart
    /\ LET r == add(chart, idx, state)
       IN /\ chart' = r.columns
          /\ lastAdd' = << [idx |-> idx, state |-> state, ret |-> r.ret,
                            before |-> chart] >>
    /\ UNCHANGED <<config, tokens, n, i, changed, todo, pc, result, calls, returned>>

----------------------------------------------------------------------------
(* Specifications *)

Idle ==
    /\ tokens = <<>>
    /\ n = 0
    /\ chart = Chart(0)
    /\ i = 0
    /\ changed = FALSE
    /\ todo = {}
    /\ pc = "idle"
    /\ result = NoResult
    /\ calls = 0
    /\ returned = {}
    /\ lastAdd = <<>>

\* a parser of a small grammar, or of the sample grammar with the two
\* shortest sentences; the sets are iterated in any order
Init ==
    /\ \/ grammar \in SmallGrammars /\ test_sents = BoundedSeq(Alphabet, MaxLen)
       \/ grammar = SampleGrammar /\ test_sents = {SentEmpty, SentUnknown}
    /\ orders = AnyOrder
    /\ Idle

\* the driver: the parser of the sample grammar and the two sentences of
\* test_sents; the sets are iterated in any order
InitSample ==
    /\ grammar = SampleGrammar
    /\ test_sents = DriverSents
    /\ orders = AnyOrder
    /\ Idle

\* the states the items of a directly driven chart are drawn from
ChartStates ==
    LET prods == productions_for(GRightRec, nt("S"))
    IN {State(prods[1], 0, 0), State(prods[1], 1, 0), State(prods[1], 0, 1),
        State(prods[2], 0, 0)}

InitChart ==
    /\ grammar = GRightRec
    /\ test_sents = {}
    /\ orders = AnyOrder
    /\ tokens = <<>>
    /\ n \in 0..MaxChartLen
    /\ chart = Chart(n)
    /\ i = 0
    /\ changed = FALSE
    /\ todo = {}
    /\ pc = "chart"
    /\ result = NoResult
    /\ calls = 0
    /\ returned = {}
    /\ lastAdd = <<>>

Next ==
    \/ \E sent \in test_sents : Call(sent)
    \/ BeginPass
    \/ \E st \in todo : Completer(st)
    \/ \E st \in todo : Predictor(st)
    \/ \E st \in todo : Scanner(st)
    \/ NextColumn
    \/ Return

NextChart == \E idx \in DOMAIN chart : \E state \in ChartStates : ChartAdd(idx, state)

Spec == Init /\ [][Next]_vars

\* parse with every pass of `while changed` taken at once
NextPass ==
    \/ \E sent \in test_sents : Call(sent)
    \/ Pass
    \/ NextColumn
    \/ Return

SpecSample == InitSample /\ [][NextPass]_vars

\* a parser of a small grammar, both loops over a set in every order
InitOrders ==
    /\ grammar \in SmallGrammars
    /\ test_sents = BoundedSeq(Alphabet, MaxOrderLen)
    /\ orders = EveryOrder
    /\ Idle

SpecOrders == InitOrders /\ [][Next]_vars

\* the small grammars without an empty right-hand side
EpsilonFreeGrammars == {GLeftRec, GAmbiguous, GRightRec, GUndeclared}

\* the driver, a parser of the sample grammar called with further
\* sentences, or a parser of a small grammar without empty right-hand side
InitAll ==
    \/ InitSample
    \/ /\ grammar = SampleGrammar
       /\ test_sents = SampleSents
       /\ orders = AnyOrder
       /\ Idle
    \/ /\ grammar \in EpsilonFreeGrammars
       /\ test_sents = BoundedSeq(Alphabet, MaxLen)
       /\ orders = AnyOrder
       /\ Idle

SpecAll == InitAll /\ [][NextPass]_vars

SpecChart == InitChart /\ [][NextChart]_vars

\* the parsers whose calls are checked for termination
InitFair ==
    /\ grammar \in {GLeftRec, GNullable}
    /\ test_sents = BoundedSeq(Alphabet, MaxFairLen)
    /\ orders = AnyOrder
    /\ Idle

\* parse runs to its end once called: it is single-threaded and no step of
\* it waits for anything
FairSpec == InitFair /\ [][Next]_vars /\ WF_vars(Next)

----------------------------------------------------------------------------
(* Derivability, defined on the grammar alone (no chart): the least set of  *)
(* triples <<X, j, k>> such that the nonterminal X derives toks[j+1..k].   *)

\* all productions of a grammar
AllProductions(g) ==
    UNION {{Production(X, g.rules[X][k]) : k \in 1..Len(g.rules[X])} :
              X \in DOMAIN g.rules}

\* every nonterminal of a right-hand side has an entry in the rules
WellFormed(g) ==
    /\ g.start \in DOMAIN g.rules
    /\ \A p \in AllProductions(g) : \A k \in 1..Len(p.rhs) :
           IsNonTerminal(p.rhs[k]) => p.rhs[k] \in DOMAIN g.rules

\* rhs[k..] derives toks[j+1..m], given the triples D
RECURSIVE SeqDerives(_, _, _, _, _, _)
SeqDerives(D, toks, rhs, k, j, m) ==
    IF k > Len(rhs) THEN j = m
    ELSE \E mid \in j..m :
            /\ IF IsNonTerminal(rhs[k])
               THEN <<rhs[k], j, mid>> \in D
               ELSE mid = j + 1 /\ toks[mid] = rhs[k]
            /\ SeqDerives(D, toks, rhs, k + 1, mid, m)

DeriveStep(g, toks, D) ==
    {t \in (DOMAIN g.rules) \X (0..Len(toks)) \X (0..Len(toks)) :
        /\ t[2] <= t[3]
        /\ \E p \in AllProductions(g) :
               p.lhs = t[1] /\ SeqDerives(D, toks, p.rhs, 1, t[2], t[3])}

RECURSIVE DeriveClosure(_, _, _)
DeriveClosure(g, toks, D) ==
    IF DeriveStep(g, toks, D) = D THEN D
    ELSE DeriveClosure(g, toks, DeriveStep(g, toks, D))

Derivable(g, toks) ==
    <<g.start, 0, Len(toks)>> \in DeriveClosure(g, toks, {})

\* the start symbol derives the empty sequence
Nullable(g) == Derivable(g, <<>>)

----------------------------------------------------------------------------
(* Claims *)

\* C1: for every well-formed grammar (left-recursive rules and empty
\* right-hand sides included) and every token sequence, parse returns a
\* non-zero value if and only if the tokens are derivable from the start symbol.
C1_AcceptsIffDerivable ==
    (pc = "done" /\ WellFormed(grammar)) =>
        ((result # 0) <=> Derivable(grammar, tokens))

\* a left-recursive grammar with an empty right-hand side has accepted two tokens
C1_Witness ==
    /\ pc = "done"
    /\ grammar = GCyclic
    /\ tokens = <<str("a"), str("a")>>
    /\ result # 0

\* C2: with the sample grammar parse accepts (returns a non-zero value for)
\* "they can fish in rivers in December" and "they can fish".
C2_SampleAccepts ==
    (pc = "done" /\ grammar = SampleGrammar /\ tokens \in {SentLong, SentShort})
        => result # 0

\* the long sentence of the driver was parsed to its last column and accepted
C2_Witness ==
    /\ pc = "done"
    /\ grammar = SampleGrammar
    /\ tokens = SentLong
    /\ i = 7
    /\ result = 1

----------------------------------------------------------------------------
(* Number of derivation trees of toks[j+1..m] from a symbol, for a grammar  *)
(* without empty right-hand sides and without unit cycles (the sample      *)
(* grammar): every symbol of a right-hand side takes at least one token.   *)

RECURSIVE CountSeq(_, _, _, _, _, _), CountSplit(_, _, _, _, _, _, _),
          CountSym(_, _, _, _, _), CountAlts(_, _, _, _, _, _)

\* derivations of toks[j+1..m] from rhs[k..]
CountSeq(g, toks, rhs, k, j, m) ==
    IF k > Len(rhs) THEN (IF j = m THEN 1 ELSE 0)
    ELSE CountSplit(g, toks, rhs, k, j, j + 1, m)

\* ... where rhs[k] ends at mid or later
CountSplit(g, toks, rhs, k, j, mid, m) ==
    IF mid > m - (Len(rhs) - k) THEN 0
    ELSE CountSym(g, toks, rhs[k], j, mid)
             * CountSeq(g, toks, rhs, k + 1, mid, m)
         + CountSplit(g, toks, rhs, k, j, mid + 1, m)

CountSym(g, toks, sym, j, m) ==
    IF IsNonTerminal(sym) THEN CountAlts(g, toks, sym, 1, j, m)
    ELSE IF m = j + 1 /\ toks[m] = sym THEN 1 ELSE 0

\* ... from the alternatives a, a+1, ... of the nonterminal X
CountAlts(g, toks, X, a, j, m) ==
    IF a > Len(RulesGet(g, X)) THEN 0
    ELSE CountSeq(g, toks, RulesGet(g, X)[a], 1, j, m)
         + CountAlts(g, toks, X, a + 1, j, m)

Derivations(g, toks) == CountSym(g, toks, g.start, 0, Len(toks))

----------------------------------------------------------------------------

\* C3 as stated: the ambiguous sentence "they can fish in rivers in December"
\* yields more than one accepting item: parse returns a count greater than 1.
C3_Original ==
    (pc = "done" /\ grammar = SampleGrammar /\ tokens = SentLong) => result > 1

\* C3, amended: the ambiguous sentence yields exactly one accepting item, the
\* complete item of S's single production with origin 0: parse returns 1.
C3_AmbiguousCountsOne ==
    (pc = "done" /\ grammar = SampleGrammar /\ tokens = SentLong) =>
        /\ result = 1
        /\ {st \in chart[n] : st.production.lhs = grammar.start /\ st.start = 0
                              /\ st.dot = Len(st.production.rhs)}
             = {State(Production(nt("S"), <<nt("NP"), nt("VP")>>), 2, 0)}

\* parse has returned for the sentence, which has more than one derivation
C3_Witness ==
    /\ pc = "done"
    /\ grammar = SampleGrammar
    /\ tokens = SentLong
    /\ Derivations(grammar, tokens) >= 2

\* C4 as stated: parse returns 0 for "fish they can" and for "zzz", and the
\* parse of "zzz" is never in an error state.
C4_Original ==
    /\ (pc = "done" /\ grammar = SampleGrammar
           /\ tokens \in {SentFishTheyCan, SentUnknown}) => result = 0
    /\ (grammar = SampleGrammar /\ tokens = SentUnknown) => pc # "error"

\* C4, amended: parse returns 0 for "zzz": no item is ever scanned over the
\* token, column 1 stays empty, and the parse is never in an error state. It
\* accepts "fish they can" (returns 1), which the grammar derives:
\* NP(N fish) VP(V they, NP(N can)).
C4_UnknownRejectedFishAccepted ==
    /\ (grammar = SampleGrammar /\ tokens = SentUnknown) =>
           /\ pc # "error"
           /\ chart[1] = {}
           /\ pc = "done" => result = 0
    /\ (grammar = SampleGrammar /\ tokens = SentFishTheyCan) =>
           /\ pc # "error"
           /\ pc = "done" => (result = 1 /\ Derivable(grammar, tokens))

\* parse has returned 0 for "zzz", with the terminals of N pending in column 0
C4_Witness ==
    /\ pc = "done"
    /\ grammar = SampleGrammar
    /\ tokens = SentUnknown
    /\ result = 0
    /\ State(Production(nt("N"), <<str("fish")>>), 0, 0) \in chart[0]

\* C5: on empty input the chart has the single column 0, seeded and final,
\* and parse returns non-zero iff the start symbol is nullable; the sample
\* grammar rejects [].
C5_EmptyInput ==
    (pc \in {"while", "for_st", "done"} /\ tokens = <<>>) =>
        /\ DOMAIN chart = {0}
        /\ i = 0
        /\ \A st \in chart[0] : st.start = 0
        /\ pc = "done" =>
              /\ (result # 0) <=> Nullable(grammar)
              /\ grammar = SampleGrammar => result = 0

\* the empty input was accepted through empty right-hand sides
C5_Witness ==
    /\ pc = "done"
    /\ tokens = <<>>
    /\ grammar = GNullable
    /\ result # 0
    /\ State(Production(nt("NP"), <<>>), 0, 0) \in chart[0]

\* C6: the value returned is the number of items of the final column n that
\* are complete, have origin 0 and the start symbol as lhs, taken when the
\* loops of all columns 0..n have exited; the input is accepted iff it is >= 1.
C6_ReturnsAcceptingCount ==
    pc = "done" =>
        /\ result = Cardinality({st \in chart[n] :
                                    /\ st.production.lhs = grammar.start
                                    /\ st.start = 0
                                    /\ st.dot = Len(st.production.rhs)})
        /\ i = n
        /\ n = Len(tokens)
        /\ ~changed
        /\ todo = {}
        /\ (result # 0) <=> (result >= 1)

\* two accepting items were counted, beside a complete item of another origin
C6_Witness ==
    /\ pc = "done"
    /\ result = 2
    /\ \E st \in chart[n] : st.production.lhs = grammar.start /\ st.start # 0

\* C7: the closure loop of every column terminates, so every call of parse
\* returns, also with left-recursive rules (VP -> VP PP) and empty
\* right-hand sides.
C7_ParseReturns == (pc \in {"while", "for_st"}) ~> (pc = "done")

\* parse has returned after it predicted the left-recursive VP -> VP PP from
\* itself in column 0 and advanced it over a complete VP in column 1
C7_Witness ==
    /\ pc = "done"
    /\ grammar = GLeftRec
    /\ tokens = <<str("a")>>
    /\ State(Production(nt("VP"), <<nt("VP"), nt("PP")>>), 0, 0) \in chart[0]
    /\ State(Production(nt("VP"), <<nt("VP"), nt("PP")>>), 1, 0) \in chart[1]
    /\ State(Production(nt("PP"), <<str("b")>>), 0, 1) \in chart[1]

\* the chart a call of parse starts from: the items (p, 0, 0) of the start
\* symbol's productions in column 0, nothing in the columns 1..len
FreshChart(g, len) ==
    [c \in 0..len |->
        IF c = 0
        THEN {State(p, 0, 0) : p \in {q \in AllProductions(g) : q.lhs = g.start}}
        ELSE {}]

\* C8: repeated calls of parse with the same grammar and tokens return the
\* same value, and every call starts from a fresh chart, whatever chart the
\* call before left.
C8_RepeatedCallsAgree ==
    /\ [](Cardinality(returned) <= 1)
    /\ [][(pc \in {"idle", "done"}) => chart' = FreshChart(grammar, Len(tokens'))]_vars

\* a second call has returned, after set iteration in any order
C8_Witness ==
    /\ pc = "done"
    /\ calls = 2
    /\ grammar = GNullable
    /\ tokens = <<str("a"), str("b")>>
    /\ returned = {1}

\* C9: during a parse no item is removed from a column, every step leaves
\* each column a superset of what it was, and the columns stay 0..n.
C9_ColumnsOnlyGrow ==
    [][(pc \notin {"idle", "done"}) =>
          /\ DOMAIN chart = 0..n
          /\ DOMAIN chart' = 0..n
          /\ n' = n
          /\ \A c \in 0..n : chart[c] \subseteq chart'[c]]_vars

\* a parse in its second column, whose columns have grown beyond one item
C9_Witness ==
    /\ pc = "for_st"
    /\ i = 1
    /\ n >= 2
    /\ Cardinality(chart[0]) >= 3
    /\ Cardinality(chart[1]) >= 3
    /\ chart[2] # {}

\* C10: Chart.add returns true iff the column's set changed: an absent item
\* is inserted and true returned; for an item equal in (production, dot,
\* origin) to a present one false is returned, this column and every other
\* are unchanged and no duplicate is made.
C10_AddTrueIffChanged ==
    lastAdd # <<>> =>
        LET r == lastAdd[1]
        IN /\ r.ret <=> (chart # r.before)
           /\ r.state \notin r.before[r.idx] =>
                 /\ r.ret
                 /\ chart[r.idx] = r.before[r.idx] \cup {r.state}
                 /\ Cardinality(chart[r.idx]) = Cardinality(r.before[r.idx]) + 1
           /\ r.state \in r.before[r.idx] =>
                 /\ ~r.ret
                 /\ chart = r.before
                 /\ Cardinality(chart[r.idx]) = Cardinality(r.before[r.idx])
           /\ DOMAIN chart = DOMAIN r.before
           /\ \A c \in DOMAIN chart : c # r.idx => chart[c] = r.before[c]

\* add was called with an item already in the column, beside items that
\* differ from it in one field, and returned false
C10_Witness ==
    /\ lastAdd # <<>>
    /\ ~lastAdd[1].ret
    /\ lastAdd[1].state \in chart[lastAdd[1].idx]
    /\ Cardinality(chart[lastAdd[1].idx]) >= 3
    /\ \E c \in DOMAIN chart : c # lastAdd[1].idx /\ chart[c] # {}


\* the item visited by a step of the for loop
VisitedItem == CHOOSE st \in todo : st \notin todo'

\* C11: no step of parse raises an IndexError: the columns are 0..n, the
\* column in work and every origin read by the completer are in 0..n, the
\* scanner reads tokens[i] and inserts into column i + 1 only when i < n, and
\* at column n a visit of an item before a terminal reads no token and
\* changes nothing.
C11_NoIndexError ==
    /\ [](/\ pc # "error"
          /\ pc # "idle" =>
                /\ DOMAIN chart = 0..n
                /\ Len(tokens) = n
                /\ i \in 0..n
                /\ \A c \in 0..n : \A st \in chart[c] : st.start \in 0..n)
    /\ [][(pc = "for_st" /\ todo' # todo) =>
             LET sym == next_symbol(VisitedItem)
             IN (sym # None /\ ~IsNonTerminal(sym)) =>
                   /\ ScannerTest(tokens, n, i, sym) # "IndexError"
                   /\ ScannerTest(tokens, n, i, sym) = "True" =>
                         /\ i \in 0..(n - 1)
                         /\ ScannerColumn(i) \in 0..n
                   /\ i = n =>
                         /\ ScannerTest(tokens, n, i, sym) = "False"
                         /\ chart' = chart
                         /\ changed' = changed]_vars

\* a parse of two tokens has returned after visiting, in the last column, an
\* item whose next symbol is a terminal
C11_Witness ==
    /\ pc = "done"
    /\ n = 2
    /\ result = 1
    /\ \E st \in chart[n] :
          /\ next_symbol(st) # None
          /\ ~IsNonTerminal(next_symbol(st))

\* the nonterminals that have no entry in the rules of the grammar
Undeclared(g) == NonTerminal \ DOMAIN g.rules

\* C12: productions_for of a nonterminal without an entry in the rules is
\* the empty sequence; the visit of an item before such a nonterminal adds
\* no item and sets no flag; a parse over a grammar that refers to an
\* undeclared nonterminal is never in an error, is never stuck before its
\* return, and returns a count.
C12_UndeclaredNonterminal ==
    /\ []((~WellFormed(grammar) /\ pc # "idle") =>
             /\ pc # "error"
             /\ \A X \in Undeclared(grammar) :
                   /\ productions_for(grammar, X) = <<>>
                   /\ \A c \in DOMAIN chart : \A st \in chart[c] :
                         st.production.lhs # X
             /\ pc \in {"while", "for_st"} => ENABLED Next
             /\ pc = "done" => result \in Nat)
    /\ [][(/\ pc = "for_st"
           /\ todo' # todo
           /\ next_symbol(VisitedItem) \in Undeclared(grammar)) =>
             /\ chart' = chart
             /\ changed' = changed
             /\ pc' # "error"]_vars

\* the parse of [a] under S -> NP PP | b, NP -> a has returned 0 after the
\* predictor visited S -> NP . PP, whose next symbol PP is undeclared
C12_Witness ==
    /\ pc = "done"
    /\ grammar = GUndeclared
    /\ tokens = <<str("a")>>
    /\ result = 0
    /\ \E st \in chart[1] : next_symbol(st) = nt("PP")

\* C13: in every chart of a parse, every item of column c has a dot in
\* 0..len(production.rhs) and an origin in 0..c.
C13_DotAndOriginInRange ==
    pc # "idle" =>
        \A c \in DOMAIN chart : \A st \in chart[c] :
            /\ 0 <= st.dot
            /\ st.dot <= Len(st.production.rhs)
            /\ 0 <= st.start
            /\ st.start <= c

\* the last column of a parse of three tokens holds an item with its dot at
\* the end and origin 0, an item with its dot at 0 and the column as origin,
\* and an item with dot and origin strictly between the limits
C13_Witness ==
    /\ pc = "done"
    /\ n = 3
    /\ \E st \in chart[3] : st.dot = Len(st.production.rhs) /\ st.start = 0
    /\ \E st \in chart[3] : st.dot = 0 /\ st.start = 3
    /\ \E st \in chart[3] :
          /\ 0 < st.dot /\ st.dot < Len(st.production.rhs)
          /\ 0 < st.start /\ st.start < 3

\* C14: while column i is in work the columns right of i + 1 are empty, and
\* a step of a parse changes a column only by a visit: the visit of an item
\* before a terminal changes column i + 1 alone, the visit of any other
\* item column i alone; i never decreases, so the columns left of i stay as
\* they were when their loop exited.
C14_ColumnsClosedLeftToRight ==
    /\ [](pc \in {"while", "for_st"} =>
             \A c \in DOMAIN chart : c > i + 1 => chart[c] = {})
    /\ [][(pc \notin {"idle", "done"}) =>
             /\ i' \in {i, i + 1}
             /\ \A c \in DOMAIN chart :
                   chart'[c] # chart[c] =>
                      /\ pc = "for_st"
                      /\ todo' # todo
                      /\ LET sym == next_symbol(VisitedItem)
                         IN IF sym # None /\ ~IsNonTerminal(sym)
                            THEN c = i + 1
                            ELSE c = i]_vars

\* column 1 of a parse of three tokens is in work: the scanner has filled
\* column 2 and column 3 is still empty
C14_Witness ==
    /\ pc = "for_st"
    /\ i = 1
    /\ n = 3
    /\ Cardinality(chart[1]) >= 2
    /\ chart[2] # {}
    /\ chart[3] = {}

\* the while loop of column c has exited
LoopExited(c) ==
    \/ pc = "done"
    \/ pc \in {"while", "for_st"} /\ c < i
    \/ pc = "while" /\ ~changed /\ c = i

\* column c is closed under the completer, the predictor and the scanner
ClosedColumn(c) ==
    \A st \in chart[c] :
        LET rhs == st.production.rhs
        IN IF st.dot = Len(rhs)
           THEN \A prev \in chart[st.start] :
                   (/\ prev.dot < Len(prev.production.rhs)
                    /\ prev.production.rhs[prev.dot + 1] = st.production.lhs)
                   => advance(prev) \in chart[c]
           ELSE IF IsNonTerminal(rhs[st.dot + 1])
           THEN \A p \in AllProductions(grammar) :
                   p.lhs = rhs[st.dot + 1] => State(p, 0, c) \in chart[c]
           ELSE (c < n /\ tokens[c + 1] = rhs[st.dot + 1])
                   => advance(st) \in chart[c + 1]

\* C15: when the while loop of a column has exited, the column is closed
\* under the three rules: the advance of every item of the origin column
\* that waits for the left-hand side of a complete item is in the column,
\* every production of a nonterminal after a dot is in the column with dot 0
\* and the column as origin, and the advance of every item before the token
\* of the column is in the next column.
C15_ClosedAtLoopExit ==
    \A c \in DOMAIN chart : LoopExited(c) => ClosedColumn(c)

\* the loop of column 1 has exited with an item of each kind in the column:
\* a complete item whose origin column holds an item waiting for it, an item
\* before a nonterminal, and an item before the next token
C15_Witness ==
    /\ pc = "while"
    /\ ~changed
    /\ i = 1
    /\ n >= 2
    /\ \E st \in chart[1] :
          /\ st.dot = Len(st.production.rhs)
          /\ \E prev \in chart[st.start] : next_symbol(prev) = st.production.lhs
    /\ \E st \in chart[1] :
          next_symbol(st) # None /\ IsNonTerminal(next_symbol(st))
    /\ \E st \in chart[1] : next_symbol(st) = tokens[2]
    /\ Cardinality(chart[1]) >= 4

\* the first d symbols of rhs derive the tokens at positions j..m-1, given
\* the triples D
PrefixDerives(D, toks, rhs, d, j, m) ==
    /\ 0 <= d /\ d <= Len(rhs)
    /\ 0 <= j /\ j <= m /\ m <= Len(toks)
    /\ SeqDerives(D, toks, SubSeq(rhs, 1, d), 1, j, m)

\* the derivation triples of every grammar and token sequence of Init, as
\* pairs <<(grammar, tokens), triples>>
DerivationTable ==
    {<<gt, DeriveClosure(gt[1], gt[2], {})>> :
        gt \in (SmallGrammars \X BoundedSeq(Alphabet, MaxLen))
                   \cup ({SampleGrammar} \X {SentEmpty, SentUnknown})}

\* the derivation triples of the grammar g and the tokens toks
DerivationTriples(g, toks) ==
    (CHOOSE p \in DerivationTable : p[1] = <<g, toks>>)[2]

\* C16: every item (A -> rhs, dot d, origin j) of column c of a chart of a
\* parse is a production of the grammar whose first d right-hand-side
\* symbols derive exactly the tokens at positions j..c-1.
C16_ItemsArePartialMatches ==
    [](pc # "idle" =>
          LET D == DerivationTriples(grammar, tokens)
              P == AllProductions(grammar)
          IN \A c \in DOMAIN chart : \A st \in chart[c] :
                /\ st.production \in P
                /\ PrefixDerives(D, tokens, st.production.rhs, st.dot,
                                 st.start, c))

\* under the left-recursive grammar the last column of the parse of [a, b, b]
\* holds VP -> VP PP . with origin 0, whose right-hand side spans the three
\* tokens, and PP -> b . with origin 2
C16_Witness ==
    /\ pc = "done"
    /\ grammar = GLeftRec
    /\ tokens = <<str("a"), str("b"), str("b")>>
    /\ State(Production(nt("VP"), <<nt("VP"), nt("PP")>>), 2, 0) \in chart[3]
    /\ State(Production(nt("PP"), <<str("b")>>), 1, 2) \in chart[3]

\* the number of productions of the grammar
NumProductions(g) == Cardinality(AllProductions(g))

\* the length of the longest right-hand side of the grammar
MaxRhsLen(g) ==
    IF AllProductions(g) = {} THEN 0
    ELSE CHOOSE m \in {Len(p.rhs) : p \in AllProductions(g)} :
            \A p \in AllProductions(g) : Len(p.rhs) <= m

\* C17: in every chart of a parse, column c holds at most
\* (number of productions) x (longest right-hand side + 1) x (c + 1) items.
C17_ColumnSizeBound ==
    pc # "idle" =>
        \A c \in DOMAIN chart :
            Cardinality(chart[c]) <=
                NumProductions(grammar) * (MaxRhsLen(grammar) + 1) * (c + 1)

\* under S -> S S | a | [] the last column of the parse of [a, a, a] holds
\* twelve items (S -> . S S, S -> . a and S -> . at origin 3, S -> S . S
\* and S -> S S . at the origins 0..3, S -> a . at origin 2), of the 36
\* the bound allows
C17_Witness ==
    /\ pc = "done"
    /\ grammar = GCyclic
    /\ n = 3
    /\ Cardinality(chart[3]) = 12
    /\ NumProductions(grammar) * (MaxRhsLen(grammar) + 1) * (3 + 1) = 36

\* the alternatives declared for the start symbol
StartAlternatives(g) == RulesGet(g, g.start)

\* C18: the count parse returns is at most the number of alternatives
\* declared for the start symbol (and at most the number of different ones);
\* with the sample grammar, whose start symbol has one alternative, parse
\* returns 0 or 1.
C18_CountAtMostStartAlternatives ==
    pc = "done" =>
        /\ result >= 0
        /\ result <= Len(StartAlternatives(grammar))
        /\ result <= Cardinality({StartAlternatives(grammar)[k] :
                                     k \in 1..Len(StartAlternatives(grammar))})
        /\ grammar = SampleGrammar =>
              /\ Len(StartAlternatives(grammar)) = 1
              /\ result \in {0, 1}

\* under S -> NP | VP, NP -> a, VP -> a | a b the parse of [a] returns 2, the
\* number of alternatives of S
C18_Witness ==
    /\ pc = "done"
    /\ grammar = GAmbiguous
    /\ tokens = <<str("a")>>
    /\ Len(StartAlternatives(grammar)) = 2
    /\ result = 2

\* the items that the completer and the predictor derive in one round from
\* the items S of column c, given the columns left of c
ClosureRound(g, left, c, S) ==
    S \cup UNION {
        IF st.dot = Len(st.production.rhs)
        THEN {advance(prev) :
                 prev \in {x \in (IF st.start = c THEN S ELSE left[st.start]) :
                              next_symbol(x) = st.production.lhs}}
        ELSE {State(p, 0, c) :
                 p \in {q \in AllProductions(g) :
                           q.lhs = st.production.rhs[st.dot + 1]}}
        : st \in S}

\* the least set of items that holds S and is closed under both rules
RECURSIVE ColumnClosure(_, _, _, _)
ColumnClosure(g, left, c, S) ==
    IF ClosureRound(g, left, c, S) = S THEN S
    ELSE ColumnClosure(g, left, c, ClosureRound(g, left, c, S))

\* the columns 0..c of the Earley chart of toks, defined without any order
RECURSIVE EarleySets(_, _, _)
EarleySets(g, toks, c) ==
    IF c = 0
    THEN 0 :> ColumnClosure(g, <<>>, 0,
                            {State(p, 0, 0) :
                                p \in {q \in AllProductions(g) :
                                          q.lhs = g.start}})
    ELSE LET left == EarleySets(g, toks, c - 1)
         IN left @@
            (c :> ColumnClosure(g, left, c,
                                {advance(st) :
                                    st \in {x \in left[c - 1] :
                                               next_symbol(x) = toks[c]}}))

\* C19: whatever the order in which the items of list(chart[i]) and of
\* list(chart[st.start]) are visited, when the while loop of a column exits
\* the columns up to it are those of the Earley chart of the tokens, and at
\* the return the whole chart is and the count is that of its last column.
C19_OrderIndependent ==
    /\ (pc = "while" /\ ~changed) =>
          \A c \in 0..i : chart[c] = EarleySets(grammar, tokens, i)[c]
    /\ pc = "done" =>
          /\ chart = EarleySets(grammar, tokens, n)
          /\ result = Cardinality({st \in EarleySets(grammar, tokens, n)[n] :
                                      /\ st.production.lhs = grammar.start
                                      /\ st.start = 0
                                      /\ st.dot = Len(st.production.rhs)})

\* the loop of the last column of the parse of [a, a] under S -> S S | a | []
\* has exited, both loops being followed in every order; the column holds
\* completions over several origins
C19_Witness ==
    /\ pc = "while"
    /\ ~changed
    /\ orders = EveryOrder
    /\ grammar = GCyclic
    /\ tokens = <<str("a"), str("a")>>
    /\ i = 2
    /\ Cardinality({st.start : st \in chart[2]}) = 3

\* C20: advance is never applied to a complete item: an item a step adds
\* with a dot right of 0 is the advance of an incomplete item, in column i of
\* an item of the origin column of the visited complete item whose next
\* symbol is the nonterminal completed, in column i + 1 of the visited item
\* whose next symbol is the terminal tokens[i]; so no item has its dot right
\* of the end of the right-hand side and is_complete holds exactly when the
\* dot is at the end.
C20_AdvanceOnlyIncomplete ==
    /\ [](pc # "idle" =>
             \A c \in DOMAIN chart : \A st \in chart[c] :
                /\ st.dot <= Len(st.production.rhs)
                /\ is_complete(st) <=> st.dot = Len(st.production.rhs))
    /\ [][(pc \notin {"idle", "done"}) =>
             \A c \in DOMAIN chart : \A new \in chart'[c] \ chart[c] :
                new.dot > 0 =>
                   /\ pc = "for_st"
                   /\ todo' # todo
                   /\ IF c = i
                      THEN /\ is_complete(VisitedItem)
                           /\ \E prev \in chart[VisitedItem.start] :
                                 /\ ~is_complete(prev)
                                 /\ IsNonTerminal(next_symbol(prev))
                                 /\ next_symbol(prev)
                                       = VisitedItem.production.lhs
                                 /\ new = advance(prev)
                      ELSE /\ c = i + 1
                           /\ ~is_complete(VisitedItem)
                           /\ ~IsNonTerminal(next_symbol(VisitedItem))
                           /\ next_symbol(VisitedItem) = tokens[i + 1]
                           /\ new = advance(VisitedItem)]_vars

\* the last column of a returned parse holds an item completed by the
\* scanner (its last symbol is a terminal) and one completed by the completer
\* (its last symbol is a nonterminal)
C20_Witness ==
    /\ pc = "done"
    /\ n >= 2
    /\ \E st \in chart[n] :
          /\ st.dot = Len(st.production.rhs) /\ st.dot > 0
          /\ ~IsNonTerminal(st.production.rhs[st.dot])
    /\ \E st \in chart[n] :
          /\ st.dot = Len(st.production.rhs) /\ st.dot > 0
          /\ IsNonTerminal(st.production.rhs[st.dot])

====
